---- MODULE Spec2Model ----
(***************************************************************************)
(* A model of volatility/framework/configuration/depresolver.py:           *)
(* the DependencyResolver (provider caches, satisfies, build_tree,         *)
(* validate_dependencies), the requirement tree classes and the tree       *)
(* visitor protocol.                                                       *)
(***************************************************************************)
EXTENDS Integers, Sequences, FiniteSets, TLC

VARIABLES
    pc,               \* position of the driver
    world,            \* the provider classes known to the framework: id -> descriptor
    schemaX,          \* get_schema() of the configurable X that is not a provider
    provides,         \* DependencyResolver.provides: key -> set of tokens
    providers_cache,  \* DependencyResolver.providers_cache: sequence of provider ids
    sat,              \* the last satisfies(provider, requirement) call and its result
    built,            \* the last build_tree(configurable) call and its outcome
    reqtree,          \* the requirement tree handed to validate_dependencies / accept
    context,          \* the Context: [config |-> path -> stored value]
    path0,            \* the path argument of validate_dependencies, the visitor's node_path
    writes,           \* what provider.fulfill stores at the path: "none", "good" or "bad"
    validated,        \* the outcome of validate_dependencies: [st, ret, log]
    visitor,          \* the visitor handed to accept
    accepted          \* the outcome of accept: [st, ret, log]

regVars == <<world, schemaX, provides, providers_cache, sat, built>>

valVars == <<reqtree, context, path0, writes, validated>>

visVars == <<visitor, accepted>>

vars == <<pc, regVars, valVars, visVars>>

----------------------------------------------------------------------------
(* Bounds of the model *)

MaxPriority == 2

Providers == {"P1", "P2", "P3"}

----------------------------------------------------------------------------
(* Capability values: a single token or a python list of tokens *)

Tok(t) == [list |-> FALSE, tok |-> t, items |-> <<>>]

Lst(s) == [list |-> TRUE, tok |-> "", items |-> s]

Range(s) == {s[i] : i \in DOMAIN s}

NoMap == <<>>

\* some total order of a finite set, standing for python's iteration order
RECURSIVE SetToSeq(_)
SetToSeq(S) ==
    IF S = {} THEN <<>>
    ELSE LET x == CHOOSE y \in S : TRUE IN <<x>> \o SetToSeq(S \ {x})

ProvidesOptions ==
    { NoMap,
      "os" :> Lst(<<"linux", "mac">>),
      "os" :> Tok("windows"),
      ("os" :> Tok("linux")) @@ ("arch" :> Lst(<<>>)),
      "arch" :> Tok("x86") }

----------------------------------------------------------------------------
(* Requirements *)

Requirement(name, optional, constrained, constraints) ==
    [name |-> name, optional |-> optional, constrained |-> constrained,
     constraints |-> constraints]

ReqX == Requirement("x", FALSE, FALSE, NoMap)

ReqOs == Requirement("os_layer", FALSE, TRUE, "os" :> Tok("linux"))

ReqArch == Requirement("arch_layer", TRUE, TRUE, "arch" :> Lst(<<"x86", "arm">>))

ConstraintOptions ==
    { NoMap,
      "os" :> Tok("linux"),
      "os" :> Lst(<<"mac", "windows">>),
      "arch" :> Lst(<<"x86", "arm">>),
      ("os" :> Tok("linux")) @@ ("arch" :> Tok("arm")),
      ("os" :> Lst(<<"windows">>)) @@ ("arch" :> Lst(<<"x86">>)) }

----------------------------------------------------------------------------
(* DependencyResolver: caches *)

\* lines 21-26: one (k, v) item of a provider merged into self.provides
MergeItem(index, k, v) ==
    LET old == IF k \in DOMAIN index THEN index[k] ELSE {}
        new_v == IF ~v.list THEN old \cup {v.tok} ELSE old \cup Range(v.items)
    IN  (k :> new_v) @@ index

\* lines 20-27: the loop over provider.provides.items(); acc = [provides, cache]
RECURSIVE MergeProvider(_, _, _)
MergeProvider(acc, provider, keys) ==
    IF keys = <<>> THEN acc
    ELSE LET k == Head(keys)
             step == [provides |-> MergeItem(acc.provides, k, world[provider].provides[k]),
                      cache |-> acc.cache \cup {provider}]
         IN  MergeProvider(step, provider, Tail(keys))

\* lines 19-27: the loop over framework.class_subclasses(clazz)
RECURSIVE MergeProviders(_, _)
MergeProviders(acc, classes) ==
    IF classes = <<>> THEN acc
    ELSE LET p == Head(classes)
         IN  MergeProviders(
                 MergeProvider(acc, p, SetToSeq(DOMAIN world[p].provides)),
                 Tail(classes))

_build_caches(classes) ==
    MergeProviders([provides |-> NoMap, cache |-> {}], classes)

\* list(cache): the elements of a set in some order
Orders(S) ==
    {s \in [1..Cardinality(S) -> S] : \A i, j \in DOMAIN s : i # j => s[i] # s[j]}

\* sorted(..., key = lambda x: -x.priority): stable, by insertion
SortKey(p) == 0 - world[p].priority

RECURSIVE InsertSorted(_, _)
InsertSorted(s, p) ==
    IF s = <<>> THEN <<p>>
    ELSE IF SortKey(p) < SortKey(Head(s)) THEN <<p>> \o s
    ELSE <<Head(s)>> \o InsertSorted(Tail(s), p)

\* a variant that sorts by ascending priority
RECURSIVE SortedAscending(_)
SortedAscending(s) ==
    IF s = <<>> THEN <<>>
    ELSE LET rest == SortedAscending(SubSeq(s, 1, Len(s) - 1))
             p == s[Len(s)]
             k == Cardinality({i \in DOMAIN rest :
                                   world[rest[i]].priority <= world[p].priority})
         IN  SubSeq(rest, 1, k) \o <<p>> \o SubSeq(rest, k + 1, Len(rest))

RECURSIVE Sorted(_)
Sorted(s) ==
    IF s = <<>> THEN <<>>
    ELSE InsertSorted(Sorted(SubSeq(s, 1, Len(s) - 1)), s[Len(s)])

----------------------------------------------------------------------------
(* DependencyResolver.satisfies and common_provision *)

\* a variant that forgets to wrap a single value in a list
common_provision_unwrapped(value1, value2) ==
    Range(value1.items) \cap Range(value2.items)

common_provision(value1, value2) ==
    LET v1 == IF ~value1.list THEN <<value1.tok>> ELSE value1.items
        v2 == IF ~value2.list THEN <<value2.tok>> ELSE value2.items
    IN  Range(v1) \cap Range(v2)

\* lines 34-36: the loop over requirement.constraints.items()
RECURSIVE SatisfiesLoop(_, _, _, _)
SatisfiesLoop(satisfied, pprovides, constraints, keys) ==
    IF keys = <<>> THEN satisfied
    ELSE LET k == Head(keys)
             s == IF k \in DOMAIN pprovides
                  THEN satisfied /\ (common_provision(pprovides[k], constraints[k]) # {})
                  ELSE satisfied
         IN  SatisfiesLoop(s, pprovides, constraints, Tail(keys))

satisfies(provider, requirement) ==
    SatisfiesLoop(TRUE, world[provider].provides, requirement.constraints,
                  SetToSeq(DOMAIN requirement.constraints))

----------------------------------------------------------------------------
(* Requirement tree classes *)

NoReq == Requirement("", FALSE, FALSE, NoMap)

RequirementTreeReq(requirement) ==
    [type |-> "Leaf", requirement |-> requirement, candidates |-> <<>>,
     children |-> <<>>]

\* candidates: the OrderedDict, a sequence of [provider, tree] in insertion order
RequirementTreeChoice(requirement, candidates) ==
    [type |-> "Choice", requirement |-> requirement, candidates |-> candidates,
     children |-> <<>>]

RequirementTreeList(children) ==
    [type |-> "List", requirement |-> NoReq, candidates |-> <<>>,
     children |-> children]

NoTree == [type |-> "None", requirement |-> NoReq, candidates |-> <<>>, children |-> <<>>]

----------------------------------------------------------------------------
(* DependencyResolver.build_tree *)

\* the depth of nested calls the interpreter allows; the recursion itself has no bound
MaxDepth == 4

get_schema(configurable) ==
    IF configurable = "X" THEN schemaX ELSE world[configurable].schema

\* a variant that catches every exception
CaughtAny(st) == st # "ok"

\* line 111: except DependencyError
Caught(st) == st = "DependencyError"

Raised(st, reentered) == [st |-> st, tree |-> NoTree, reentered |-> reentered]

\* a variant that lets an unsatisfiable optional requirement pass
CloseRequirementLenient(deptree, subreq, scan) ==
    IF ~scan.satisfiable /\ ~subreq.optional
    THEN [st |-> "DependencyError", deptree |-> <<>>]
    ELSE IF scan.candidates # <<>>
    THEN [st |-> "ok",
          deptree |-> Append(deptree, RequirementTreeChoice(subreq, scan.candidates))]
    ELSE [st |-> "ok", deptree |-> deptree]

\* lines 113-118: after the scan of the providers for subreq;
\* scan = [candidates, satisfiable, reentered]
CloseRequirement(deptree, subreq, scan) ==
    IF ~scan.satisfiable
    THEN [st |-> "DependencyError", deptree |-> <<>>]
    ELSE IF scan.candidates # <<>>
    THEN [st |-> "ok",
          deptree |-> Append(deptree, RequirementTreeChoice(subreq, scan.candidates))]
    ELSE [st |-> "ok", deptree |-> deptree]

RECURSIVE build_tree(_, _)

\* lines 105-112: the loop over self.providers_cache, from index i on.
\* stack: the configurables whose build_tree calls are active (a ghost of the call stack)
RECURSIVE ScanProviders(_, _, _, _)
ScanProviders(subreq, i, scan, stack) ==
    IF i > Len(providers_cache) THEN [st |-> "ok"] @@ scan
    ELSE LET potential == providers_cache[i]
         IN  IF ~satisfies(potential, subreq)
             THEN ScanProviders(subreq, i + 1, scan, stack)
             ELSE LET candidate == build_tree(potential, stack)
                      re == scan.reentered \/ candidate.reentered
                  IN  IF candidate.st = "ok"
                      THEN ScanProviders(subreq, i + 1,
                               [candidates |-> Append(scan.candidates,
                                    [provider |-> potential, tree |-> candidate.tree]),
                                satisfiable |-> TRUE,
                                reentered |-> re], stack)
                      ELSE IF Caught(candidate.st)
                      THEN ScanProviders(subreq, i + 1,
                               [scan EXCEPT !.reentered = re], stack)
                      ELSE [st |-> candidate.st, candidates |-> <<>>,
                            satisfiable |-> FALSE, reentered |-> re]

\* lines 97-119: the loop over configurable.get_schema(), from index i on
RECURSIVE SchemaLoop(_, _, _, _, _)
SchemaLoop(schema, i, deptree, reentered, stack) ==
    IF i > Len(schema)
    THEN [st |-> "ok", tree |-> RequirementTreeList(deptree), reentered |-> reentered]
    ELSE LET subreq == schema[i]
         IN  IF ~subreq.constrained
             THEN SchemaLoop(schema, i + 1,
                      Append(deptree, RequirementTreeReq(subreq)), reentered, stack)
             ELSE LET scan == ScanProviders(subreq, 1,
                                  [candidates |-> <<>>, satisfiable |-> FALSE,
                                   reentered |-> reentered], stack)
                      closed == CloseRequirement(deptree, subreq, scan)
                  IN  IF scan.st # "ok" THEN Raised(scan.st, scan.reentered)
                      ELSE IF closed.st # "ok" THEN Raised(closed.st, scan.reentered)
                      ELSE SchemaLoop(schema, i + 1, closed.deptree,
                                      scan.reentered, stack)

\* callers: the configurables whose build_tree calls are active when this one is made
build_tree(configurable, callers) ==
    IF Len(callers) >= MaxDepth
    THEN Raised("RecursionError", configurable \in Range(callers))
    ELSE SchemaLoop(get_schema(configurable), 1, <<>>,
                    configurable \in Range(callers), Append(callers, configurable))

----------------------------------------------------------------------------
(* DependencyResolver.validate_dependencies *)

\* interfaces.configuration.CONFIG_SEPARATOR
CONFIG_SEPARATOR == "."

\* one call on a collaborator, recorded with the position pos of the tree node
\* it is made for (the indices from the root list down to the node)
Event(op, pos, cand, ok, provider, req, path) ==
    [op |-> op, pos |-> pos, cand |-> cand, ok |-> ok, provider |-> provider,
     req |-> req, path |-> path]

\* provider.fulfill(context, requirement, path): stores the provider's value at the path
fulfill(provider, config, requirement, node_path) ==
    IF writes = "none" THEN config ELSE (node_path :> writes) @@ config

\* a variant that hands the parent's path to fulfill
FulfillCallParentPath(provider, ctx, node, path, node_path, pos, j) ==
    [config |-> fulfill(provider, ctx.config, node.requirement, path),
     log |-> Append(ctx.log, Event("fulfill", pos, j, TRUE, provider,
                                   node.requirement.name, path))]

\* line 68
FulfillCall(provider, ctx, node, path, node_path, pos, j) ==
    [config |-> fulfill(provider, ctx.config, node.requirement, node_path),
     log |-> Append(ctx.log, Event("fulfill", pos, j, TRUE, provider,
                                   node.requirement.name, node_path))]

\* lines 74-77: the try block; raised when the read or requirement.validate raises
TryValue(node, ctx, node_path, pos) ==
    LET present == node_path \in DOMAIN ctx.config
        accepted_ == present /\ ctx.config[node_path] = "good"
        read == Event("read", pos, 0, present, "", node.requirement.name, node_path)
        val == Event("validate", pos, 0, accepted_, "", node.requirement.name, node_path)
    IN  [raised |-> ~accepted_,
         ctx |-> [ctx EXCEPT !.log = IF present THEN @ \o <<read, val>> ELSE Append(@, read)]]

\* a variant that returns False for an optional requirement too
CheckFailsAlways(node, raised) == raised

\* a variant that never returns False
CheckFailsNever(node, raised) == FALSE

\* line 78
CheckFails(node, raised) == raised /\ ~node.requirement.optional

RECURSIVE validate_dependencies(_, _, _, _)

\* lines 66-73: the loop over node.candidates, from candidate j on
RECURSIVE CandidateLoop(_, _, _, _, _, _)
CandidateLoop(node, j, ctx, path, node_path, pos) ==
    IF j > Len(node.candidates)
    THEN [found |-> FALSE,
          ctx |-> [ctx EXCEPT !.log = Append(@, Event("exhausted", pos, 0, FALSE, "",
                                                      node.requirement.name, node_path))]]
    ELSE LET provider == node.candidates[j].provider
             try == [ctx EXCEPT !.log = Append(@, Event("try", pos, j, TRUE, provider,
                                                        node.requirement.name, node_path))]
             sub == validate_dependencies(node.candidates[j].tree, try, node_path,
                                          pos \o <<j>>)
             tried == [sub.ctx EXCEPT !.log = Append(@, Event("tried", pos, j, sub.ret,
                                              provider, node.requirement.name, node_path))]
         IN  IF sub.ret
             THEN [found |-> TRUE,
                   ctx |-> FulfillCall(provider, tried, node, path, node_path, pos, j)]
             ELSE CandidateLoop(node, j + 1, tried, path, node_path, pos)

\* lines 63-83: the loop over deptree.children, from child i on
RECURSIVE NodeLoop(_, _, _, _, _)
NodeLoop(children, i, ctx, path, pos) ==
    IF i > Len(children) THEN [ret |-> TRUE, ctx |-> ctx]
    ELSE LET node == children[i]
             npos == pos \o <<i>>
             node_path == path \o CONFIG_SEPARATOR \o node.requirement.name
             sel == IF node.type = "Choice" /\ ~node.requirement.optional
                    THEN CandidateLoop(node, 1, ctx, path, node_path, npos)
                    ELSE [found |-> TRUE, ctx |-> ctx]
             chk == TryValue(node, sel.ctx, node_path, npos)
         IN  IF ~sel.found THEN [ret |-> FALSE, ctx |-> sel.ctx]
             ELSE IF CheckFails(node, chk.raised) THEN [ret |-> FALSE, ctx |-> chk.ctx]
             ELSE NodeLoop(children, i + 1, chk.ctx, path, pos)

\* ctx = [config, log]; pos: the position of deptree in the whole tree
validate_dependencies(deptree, ctx, path, pos) ==
    NodeLoop(deptree.children, 1, ctx, path, pos)

----------------------------------------------------------------------------
(* Tree visitor classes and accept *)

\* a TreeVisitor subclass whose hooks return False at the hook calls in stops
TableVisitor(stops) ==
    [kind |-> "table", stops |-> stops, node_path |-> "", config |-> NoMap]

\* ValidateDependenciesVisitor.__init__
ValidateDependenciesVisitor(ctx, node_path) ==
    [kind |-> "validate", stops |-> {}, node_path |-> node_path, config |-> ctx.config]

Returned(ret, log) == [ret |-> ret, raised |-> FALSE, log |-> log]

Escaped(log) == [ret |-> FALSE, raised |-> TRUE, log |-> log]

\* TreeVisitor.visit / ValidateDependenciesVisitor.visit.
\* A RequirementTreeList has no requirement: the AttributeError raised in the try
\* block is caught, and raised again by the handler's node.requirement.optional.
visit(v, node, pos, log) ==
    IF v.kind = "table"
    THEN LET ret == [hook |-> "visit", pos |-> pos] \notin v.stops
         IN  Returned(ret, Append(log, Event("visit", pos, 0, ret, "",
                                             node.requirement.name, "")))
    ELSE LET present == v.node_path \in DOMAIN v.config
             accepted_ == present /\ v.config[v.node_path] = "good"
             read == Event("read", pos, 0, present, "", node.requirement.name, v.node_path)
             val == Event("validate", pos, 0, accepted_, "", node.requirement.name,
                          v.node_path)
         IN  IF node.type = "List" THEN Escaped(Append(log, read))
             ELSE Returned(accepted_ \/ node.requirement.optional,
                           IF present THEN log \o <<read, val>> ELSE Append(log, read))

\* TreeVisitor.visit_enter / ValidateDependenciesVisitor.visit_enter
visit_enter(v, node, pos, log) ==
    LET ret == v.kind # "table" \/ [hook |-> "enter", pos |-> pos] \notin v.stops
    IN  Returned(ret, Append(log, Event("enter", pos, 0, ret, "",
                                        node.requirement.name, "")))

\* TreeVisitor.visit_leave / ValidateDependenciesVisitor.visit_leave
visit_leave(v, node, pos, log) ==
    IF v.kind = "table"
    THEN LET ret == [hook |-> "leave", pos |-> pos] \notin v.stops
         IN  Returned(ret, Append(log, Event("leave", pos, 0, ret, "",
                                             node.requirement.name, "")))
    ELSE visit(v, node, pos, log)

\* a variant that goes on to the next child whatever the last one returned
ListGoesOnAlways(applied) == TRUE

\* lines 243-244: if not candidate.apply(visitor): break
ListGoesOn(applied) == applied.ret

\* lines 223-224: if not self.candidates[candidate].apply(visitor): break
ChoiceGoesOn(applied) == applied.ret

\* the subtrees accept iterates over: the children of a list, the candidates'
\* trees of a choice
Subtrees(node) ==
    IF node.type = "List" THEN node.children
    ELSE [j \in DOMAIN node.candidates |-> node.candidates[j].tree]

RECURSIVE accept(_, _, _, _)

\* node.apply(visitor): the traversal of the node
apply(node, v, pos, log) == accept(node, v, pos, log)

\* lines 222-224 and 242-244: the loop over the subtrees, from index i on
RECURSIVE ApplyLoop(_, _, _, _, _)
ApplyLoop(node, i, v, pos, log) ==
    IF i > Len(Subtrees(node)) THEN Returned(TRUE, log)
    ELSE LET applied == apply(Subtrees(node)[i], v, pos \o <<i>>, log)
             goesOn == IF node.type = "List" THEN ListGoesOn(applied)
                       ELSE ChoiceGoesOn(applied)
         IN  IF applied.raised THEN applied
             ELSE IF ~goesOn THEN Returned(TRUE, applied.log)
             ELSE ApplyLoop(node, i + 1, v, pos, applied.log)

\* RequirementTreeNode.accept, RequirementTreeChoice.accept, RequirementTreeList.accept
accept(node, v, pos, log) ==
    IF node.type = "Leaf" THEN visit(v, node, pos, log)
    ELSE LET entered == visit_enter(v, node, pos, log)
             looped == IF entered.ret THEN ApplyLoop(node, 1, v, pos, entered.log)
                       ELSE Returned(TRUE, entered.log)
         IN  IF looped.raised THEN looped
             ELSE visit_leave(v, node, pos, looped.log)

----------------------------------------------------------------------------
(* The driver of the registry *)

NoSat == [provider |-> "", constraints |-> NoMap, result |-> FALSE]

NoOutcome == [st |-> "none", ret |-> FALSE, log |-> <<>>]

NoVisitor == [kind |-> "none", stops |-> {}, node_path |-> "", config |-> NoMap]

NoBuilt == [configurable |-> "", st |-> "none", tree |-> NoTree, reentered |-> FALSE]

RegistryDescs ==
    [priority : 1..MaxPriority, provides : ProvidesOptions, schema : {<<>>}]

InitRegistry ==
    /\ pc = "new"
    /\ world \in [Providers -> RegistryDescs]
    /\ schemaX = <<>>
    /\ provides = NoMap
    /\ providers_cache = <<>>
    /\ sat = NoSat
    /\ built = NoBuilt
    /\ reqtree = RequirementTreeList(<<>>)
    /\ context = [config |-> NoMap]
    /\ path0 = ""
    /\ writes = "none"
    /\ validated = NoOutcome
    /\ visitor = NoVisitor
    /\ accepted = NoOutcome

\* DependencyResolver.__init__
Construct ==
    /\ pc = "new"
    /\ \E classes \in Orders(Providers) :
         LET caches == _build_caches(classes)
         IN  /\ provides' = caches.provides
             /\ \E l \in Orders(caches.cache) : providers_cache' = Sorted(l)
    /\ pc' = "ready"
    /\ UNCHANGED <<world, schemaX, sat, built, valVars, visVars>>

Satisfies ==
    /\ pc = "ready"
    /\ \E p \in Providers, c \in ConstraintOptions :
         sat' = [provider |-> p, constraints |-> c,
                 result |-> satisfies(p, Requirement("r", FALSE, TRUE, c))]
    /\ pc' = "answered"
    /\ UNCHANGED <<world, schemaX, provides, providers_cache, built, valVars, visVars>>

NextRegistry == Construct \/ Satisfies

SpecRegistry == InitRegistry /\ [][NextRegistry]_vars

----------------------------------------------------------------------------
(* The driver of build_tree *)

SchemaOptions == { <<>>, <<ReqOs>>, <<ReqArch, ReqOs>> }

BuildProvides ==
    { NoMap,
      "os" :> Lst(<<"linux", "mac">>),
      "os" :> Tok("windows"),
      ("os" :> Tok("linux")) @@ ("arch" :> Lst(<<>>)) }

BuildDescs ==
    [priority : 1..MaxPriority, provides : BuildProvides, schema : SchemaOptions]

Configurables == Providers \cup {"X"}

InitBuild ==
    /\ pc = "new"
    /\ world \in [Providers -> BuildDescs]
    \* the provider ids are interchangeable: one representative per renaming
    /\ world["P1"].priority <= world["P2"].priority
    /\ world["P2"].priority <= world["P3"].priority
    /\ schemaX = <<ReqX, ReqArch, ReqOs>>
    /\ provides = NoMap
    /\ providers_cache = <<>>
    /\ sat = NoSat
    /\ built = NoBuilt
    /\ reqtree = RequirementTreeList(<<>>)
    /\ context = [config |-> NoMap]
    /\ path0 = ""
    /\ writes = "none"
    /\ validated = NoOutcome
    /\ visitor = NoVisitor
    /\ accepted = NoOutcome

BuildTree ==
    /\ pc = "ready"
    /\ \E c \in Configurables :
         built' = [configurable |-> c] @@ build_tree(c, <<>>)
    /\ pc' = "built"
    /\ UNCHANGED <<world, schemaX, provides, providers_cache, sat, valVars, visVars>>

NextBuild == Construct \/ BuildTree

SpecBuild == InitBuild /\ [][NextBuild]_vars

----------------------------------------------------------------------------
(* Properties of the registry and of satisfies *)

TokenSet(v) == IF v.list THEN Range(v.items) ELSE {v.tok}

\* every constraint key the provider declares too has overlapping values
Matches(pprovides, constraints) ==
    \A k \in DOMAIN constraints \cap DOMAIN pprovides :
        TokenSet(pprovides[k]) \cap TokenSet(constraints[k]) # {}

Priority(p) == world[p].priority

Descending(s) ==
    \A i, j \in DOMAIN s : i < j => Priority(s[i]) >= Priority(s[j])

\* C4: satisfies(p, r) is true exactly when every constraint key present in both
\* r.constraints and p.provides has overlapping values once both are taken as
\* sets; a key that p.provides does not declare never makes it false, and a
\* requirement without constraints is always satisfied.
C4_SatisfiesIffCommonKeysOverlap ==
    pc = "answered" =>
        LET pp == world[sat.provider].provides
        IN  /\ sat.result = Matches(pp, sat.constraints)
            /\ (DOMAIN sat.constraints \cap DOMAIN pp = {}) => sat.result
            /\ (sat.constraints = NoMap) => sat.result

\* a satisfied call with one key skipped (undeclared) and one key where a single
\* token meets a list
C4_Witness ==
    /\ pc = "answered"
    /\ sat.result
    /\ LET pp == world[sat.provider].provides
       IN  /\ \E k \in DOMAIN sat.constraints : k \notin DOMAIN pp
           /\ \E k \in DOMAIN sat.constraints \cap DOMAIN pp :
                  pp[k].list /\ ~sat.constraints[k].list

\* C9: after construction the provider list holds every provider of the
\* enumeration exactly once (also one whose provides mapping is empty), by
\* non-increasing priority, and the capability index maps each key to the union
\* of the values the providers declare for it.
C9_CacheHoldsEveryProvider ==
    pc # "new" =>
        /\ \A p \in Providers :
               Cardinality({i \in DOMAIN providers_cache : providers_cache[i] = p}) = 1
        /\ Descending(providers_cache)
        /\ DOMAIN provides = UNION {DOMAIN world[p].provides : p \in Providers}
        /\ \A k \in DOMAIN provides :
               provides[k] = UNION {TokenSet(world[p].provides[k]) :
                                       p \in {q \in Providers : k \in DOMAIN world[q].provides}}

\* what the constructor does establish: the same, for the providers that declare
\* at least one capability
RegistryInv ==
    pc # "new" =>
        /\ \A p \in Providers :
               Cardinality({i \in DOMAIN providers_cache : providers_cache[i] = p})
                   = IF world[p].provides = NoMap THEN 0 ELSE 1
        /\ Descending(providers_cache)
        /\ DOMAIN provides = UNION {DOMAIN world[p].provides : p \in Providers}
        /\ \A k \in DOMAIN provides :
               provides[k] = UNION {TokenSet(world[p].provides[k]) :
                                       p \in {q \in Providers : k \in DOMAIN world[q].provides}}

----------------------------------------------------------------------------
(* Properties of build_tree *)

\* c's schema holds a constrained requirement that the cached provider p matches
Edge(c, p) ==
    /\ p \in Range(providers_cache)
    /\ \E i \in DOMAIN get_schema(c) :
           /\ get_schema(c)[i].constrained
           /\ Matches(world[p].provides, get_schema(c)[i].constraints)

RECURSIVE Closure(_)
Closure(S) ==
    LET T == S \cup {p \in Providers : \E q \in S : Edge(q, p)}
    IN  IF T = S THEN S ELSE Closure(T)

ReachFrom(c) == Closure({p \in Providers : Edge(c, p)})

OnCycle(p) == p \in ReachFrom(p)

CycleReachable(c) == \E p \in ReachFrom(c) \cup ({c} \cap Providers) : OnCycle(p)

\* the outcome of the nested build of provider p inside build_tree(c)
NestedBuild(p, c) == build_tree(p, <<c>>)

\* no cached provider both matches r and builds
Dead(r, c) ==
    /\ r.constrained
    /\ \A i \in DOMAIN providers_cache :
           Matches(world[providers_cache[i]].provides, r.constraints)
               => NestedBuild(providers_cache[i], c).st = "DependencyError"

HasDead(c) == \E i \in DOMAIN get_schema(c) : Dead(get_schema(c)[i], c)

CandidateProviders(node) ==
    [j \in DOMAIN node.candidates |-> node.candidates[j].provider]

\* C2: the Choice node of every constrained requirement r of the schema holds,
\* in the order of the priority-sorted provider list (descending priority),
\* exactly the listed providers that satisfy r and whose own build succeeds.
C2_CandidatesAreFilteredCache ==
    built.st = "ok" =>
        LET c == built.configurable
            schema == get_schema(c)
            kids == built.tree.children
        IN  /\ Len(kids) = Len(schema)
            /\ \A i \in DOMAIN schema :
                   schema[i].constrained =>
                       /\ kids[i].type = "Choice"
                       /\ kids[i].requirement = schema[i]
                       /\ CandidateProviders(kids[i]) =
                              SelectSeq(providers_cache,
                                  LAMBDA p :
                                      /\ Matches(world[p].provides, schema[i].constraints)
                                      /\ NestedBuild(p, c).st = "ok")
                       /\ Descending(CandidateProviders(kids[i]))
                       /\ \A j \in DOMAIN kids[i].candidates :
                              kids[i].candidates[j].tree =
                                  NestedBuild(kids[i].candidates[j].provider, c).tree

\* a Choice with two candidates of different priority, and a cached provider of
\* the highest priority that is left out
C2_Witness ==
    /\ built.st = "ok"
    /\ \E i \in DOMAIN built.tree.children :
           LET cands == CandidateProviders(built.tree.children[i])
           IN  /\ Len(cands) = 2
               /\ Priority(cands[1]) > Priority(cands[2])
               /\ \E p \in Range(providers_cache) \ Range(cands) :
                      Priority(p) >= Priority(cands[1])

\* C3 as stated: build_tree ends with DependencyError and no tree whenever some
\* constrained requirement of the schema has no provider that satisfies it and
\* builds.
C3_DeadRequirementRaisesDependencyError ==
    (built.st # "none" /\ HasDead(built.configurable)) =>
        (built.st = "DependencyError" /\ built.tree = NoTree)

\* C3 amended: with such a requirement build_tree never returns a tree, and
\* unless the recursion runs away it ends with DependencyError; without such a
\* requirement a DependencyError of a candidate is not propagated.
C3_DeadRequirementNeverBuilds ==
    built.st # "none" =>
        /\ HasDead(built.configurable) => (built.st # "ok" /\ built.tree = NoTree)
        /\ built.st # "RecursionError" =>
               (built.st = "DependencyError" <=> HasDead(built.configurable))

\* DependencyError for an optional requirement whose only matching providers
\* fail in their own build
C3_Witness ==
    /\ built.st = "DependencyError"
    /\ \E i \in DOMAIN get_schema(built.configurable) :
           LET r == get_schema(built.configurable)[i]
           IN  /\ r.optional
               /\ Dead(r, built.configurable)
               /\ \E p \in Range(providers_cache) :
                      Matches(world[p].provides, r.constraints)

----------------------------------------------------------------------------
(* The driver of validate_dependencies *)

MaxChildren == 2

Leaf(name, optional) == RequirementTreeReq(Requirement(name, optional, FALSE, NoMap))

Choice(name, optional, candidates) ==
    RequirementTreeChoice(Requirement(name, optional, TRUE, "os" :> Tok("linux")),
                          candidates)

Cand(provider, children) == [provider |-> provider, tree |-> RequirementTreeList(children)]

\* the nodes of the trees validated: NODE = req, {candidate: DEPTREE}; LEAF = req
NodeOptions ==
    { Leaf("a", FALSE),
      Leaf("b", TRUE),
      Choice("r", FALSE, <<Cand("P1", <<Leaf("z", FALSE)>>), Cand("P2", <<>>)>>),
      Choice("r", FALSE,
             <<Cand("P1", <<Leaf("z", FALSE)>>),
               Cand("P2", <<Choice("s", FALSE, <<Cand("P3", <<>>)>>),
                            Leaf("z", FALSE)>>)>>),
      Choice("r", TRUE, <<Cand("P1", <<Leaf("z", FALSE)>>)>>),
      Choice("r", FALSE,
             <<Cand("P1", <<Leaf("z", FALSE)>>), Cand("P2", <<Leaf("z", TRUE)>>),
               Cand("P3", <<>>)>>) }

ChildLists == UNION {[1..n -> NodeOptions] : n \in 0..MaxChildren}

\* the configuration paths of a list of nodes below path
RECURSIVE PathsOf(_, _)
PathsOf(children, path) ==
    UNION { LET node == children[i]
                node_path == path \o CONFIG_SEPARATOR \o node.requirement.name
            IN  {node_path} \cup
                UNION {PathsOf(node.candidates[j].tree.children, node_path) :
                           j \in DOMAIN node.candidates}
            : i \in DOMAIN children }

Configs(paths) == UNION {[D -> {"good", "bad"}] : D \in SUBSET paths}

InitValidate ==
    /\ pc = "ready"
    /\ world = [p \in Providers |-> [priority |-> 1, provides |-> NoMap, schema |-> <<>>]]
    /\ schemaX = <<>>
    /\ provides = NoMap
    /\ providers_cache = <<>>
    /\ sat = NoSat
    /\ built = NoBuilt
    /\ path0 \in {"", "plugins"}
    /\ \E children \in ChildLists :
         /\ reqtree = RequirementTreeList(children)
         /\ \E config \in Configs(PathsOf(children, path0)) :
                context = [config |-> config]
    /\ writes \in {"none", "good", "bad"}
    /\ validated = NoOutcome
    /\ visitor = NoVisitor
    /\ accepted = NoOutcome

Validate ==
    /\ pc \in {"ready", "visited"}
    /\ LET out == validate_dependencies(reqtree, [config |-> context.config, log |-> <<>>],
                                        path0, <<>>)
       IN  /\ validated' = [st |-> "returned", ret |-> out.ret, log |-> out.ctx.log]
           /\ context' = [config |-> out.ctx.config]
    /\ pc' = "validated"
    /\ UNCHANGED <<regVars, reqtree, path0, writes, visVars>>

\* the same tree and configuration walked with a ValidateDependenciesVisitor
AcceptValidator ==
    /\ pc = "ready"
    /\ LET v == ValidateDependenciesVisitor(context, path0)
           out == accept(reqtree, v, <<>>, <<>>)
       IN  /\ visitor' = v
           /\ accepted' = [st |-> IF out.raised THEN "raised" ELSE "returned",
                           ret |-> out.ret, log |-> out.log]
    /\ pc' = "visited"
    /\ UNCHANGED <<regVars, valVars>>

NextValidate == Validate \/ AcceptValidator

SpecValidate == InitValidate /\ [][NextValidate]_vars

----------------------------------------------------------------------------
(* Properties of validate_dependencies *)

\* the node at position pos below the list
RECURSIVE NodeAt(_, _)
NodeAt(list, pos) ==
    IF Len(pos) = 1 THEN list.children[pos[1]]
    ELSE NodeAt(list.children[pos[1]].candidates[pos[2]].tree, SubSeq(pos, 3, Len(pos)))

\* the list that holds the node at position pos
ListOf(pos) ==
    IF Len(pos) = 1 THEN reqtree
    ELSE NodeAt(reqtree, SubSeq(pos, 1, Len(pos) - 2)).candidates[pos[Len(pos) - 1]].tree

\* the configuration path of the node at position pos
RECURSIVE PathAt(_, _, _)
PathAt(list, path, pos) ==
    LET node == list.children[pos[1]]
        here == path \o CONFIG_SEPARATOR \o node.requirement.name
    IN  IF Len(pos) = 1 THEN here
        ELSE PathAt(node.candidates[pos[2]].tree, here, SubSeq(pos, 3, Len(pos)))

IsPrefix(p, q) == Len(p) <= Len(q) /\ SubSeq(q, 1, Len(p)) = p

\* q lies in the subtree of a later sibling of the node at p
LaterSibling(p, q) ==
    /\ Len(p) > 0
    /\ Len(q) >= Len(p)
    /\ SubSeq(q, 1, Len(p) - 1) = SubSeq(p, 1, Len(p) - 1)
    /\ q[Len(p)] > p[Len(p)]

VLog == validated.log

\* the read of the stored value or requirement.validate raised
CheckRaised(e) == e.op \in {"read", "validate"} /\ ~e.ok

\* the event is one after which the call at that level returns False
Failing(e) ==
    \/ CheckRaised(e) /\ ~NodeAt(reqtree, e.pos).requirement.optional
    \/ e.op = "exhausted"

\* C1: for a non-optional Choice node with a candidate whose subtree validates,
\* fulfill is called exactly once, with the node's requirement and node path, for
\* the first candidate in stored order that validates; no later candidate is
\* validated or committed and no earlier one is committed.
C1_FirstValidCandidateCommittedOnce ==
    validated.st = "returned" =>
        /\ \A i \in DOMAIN VLog :
               (VLog[i].op = "tried" /\ VLog[i].ok) =>
                   LET pos == VLog[i].pos
                       k == VLog[i].cand
                       node == NodeAt(reqtree, pos)
                   IN  /\ node.type = "Choice" /\ ~node.requirement.optional
                       /\ Cardinality({m \in DOMAIN VLog :
                              VLog[m].op = "fulfill" /\ VLog[m].pos = pos}) = 1
                       /\ \A m \in DOMAIN VLog :
                              (VLog[m].op = "fulfill" /\ VLog[m].pos = pos) =>
                                  /\ m > i
                                  /\ VLog[m].cand = k
                                  /\ VLog[m].provider = node.candidates[k].provider
                                  /\ VLog[m].req = node.requirement.name
                                  /\ VLog[m].path = PathAt(reqtree, path0, pos)
                       /\ \A j \in 1..(k - 1) :
                              \E m \in 1..(i - 1) :
                                  /\ VLog[m].op = "tried" /\ VLog[m].pos = pos
                                  /\ VLog[m].cand = j /\ ~VLog[m].ok
                       /\ \A m \in DOMAIN VLog :
                              /\ (VLog[m].pos = pos /\ VLog[m].op \in {"try", "tried", "fulfill"})
                                     => VLog[m].cand <= k
                              /\ (IsPrefix(pos, VLog[m].pos) /\ Len(VLog[m].pos) > Len(pos))
                                     => VLog[m].pos[Len(pos) + 1] <= k
        /\ \A m \in DOMAIN VLog :
               VLog[m].op = "fulfill" =>
                   \E i \in 1..(m - 1) :
                       /\ VLog[i].op = "tried" /\ VLog[i].ok
                       /\ VLog[i].pos = VLog[m].pos /\ VLog[i].cand = VLog[m].cand

\* the second of three candidates validates after the first failed, is committed,
\* and the third is never tried
C1_Witness ==
    /\ validated.st = "returned"
    /\ \E i, m \in DOMAIN VLog :
           /\ VLog[i].op = "tried" /\ VLog[i].ok /\ VLog[i].cand = 2
           /\ Len(NodeAt(reqtree, VLog[i].pos).candidates) = 3
           /\ VLog[m].op = "fulfill" /\ VLog[m].pos = VLog[i].pos

C8_NoSiblingAfterFailure ==
    validated.st = "returned" =>
        \A i \in DOMAIN VLog :
            Failing(VLog[i]) =>
                /\ \A m \in DOMAIN VLog : ~LaterSibling(VLog[i].pos, VLog[m].pos)
                /\ Len(VLog[i].pos) = 1 => ~validated.ret

\* a first child that fails (a rejected value, or no candidate left) in front of
\* a Choice that is then never looked at
C8_Witness ==
    /\ validated.st = "returned"
    /\ Len(reqtree.children) = 2
    /\ reqtree.children[2].type = "Choice"
    /\ ~reqtree.children[2].requirement.optional
    /\ \E i \in DOMAIN VLog :
           /\ VLog[i].pos = <<1>>
           /\ VLog[i].op = "exhausted"
    /\ \E i \in DOMAIN VLog :
           /\ Len(VLog[i].pos) = 3
           /\ VLog[i].op = "validate" /\ ~VLog[i].ok

----------------------------------------------------------------------------
(* The driver of accept *)

MaxSiblings == 3

MaxStops == 2

VisitOptions ==
    { Leaf("a", FALSE),
      RequirementTreeList(<<Leaf("c", FALSE)>>),
      Choice("r", FALSE, <<Cand("P1", <<Leaf("z", FALSE)>>), Cand("P2", <<>>)>>) }

VisitTrees ==
    {RequirementTreeList(children) :
         children \in UNION {[1..n -> VisitOptions] : n \in 0..MaxSiblings}}

\* the hook calls a traversal of the node at pos can make
RECURSIVE HookPoints(_, _)
HookPoints(node, pos) ==
    IF node.type = "Leaf" THEN {[hook |-> "visit", pos |-> pos]}
    ELSE {[hook |-> "enter", pos |-> pos], [hook |-> "leave", pos |-> pos]} \cup
         UNION {HookPoints(Subtrees(node)[i], pos \o <<i>>) : i \in DOMAIN Subtrees(node)}

\* the subsets of S of at most k elements
RECURSIVE SmallSubsets(_, _)
SmallSubsets(S, k) ==
    IF k = 0 THEN {{}}
    ELSE LET less == SmallSubsets(S, k - 1)
         IN  less \cup {T \cup {x} : T \in less, x \in S}

InitVisit ==
    /\ pc = "ready"
    /\ world = [p \in Providers |-> [priority |-> 1, provides |-> NoMap, schema |-> <<>>]]
    /\ schemaX = <<>>
    /\ provides = NoMap
    /\ providers_cache = <<>>
    /\ sat = NoSat
    /\ built = NoBuilt
    /\ reqtree \in VisitTrees
    /\ context = [config |-> NoMap]
    /\ path0 = ""
    /\ writes = "none"
    /\ validated = NoOutcome
    /\ visitor \in {TableVisitor(stops) :
                        stops \in SmallSubsets(HookPoints(reqtree, <<>>), MaxStops)}
    /\ accepted = NoOutcome

Accept ==
    /\ pc = "ready"
    /\ LET out == accept(reqtree, visitor, <<>>, <<>>)
       IN  accepted' = [st |-> IF out.raised THEN "raised" ELSE "returned",
                        ret |-> out.ret, log |-> out.log]
    /\ pc' = "visited"
    /\ UNCHANGED <<regVars, valVars, visitor>>

NextVisit == Accept

SpecVisit == InitVisit /\ [][NextVisit]_vars

----------------------------------------------------------------------------
(* Properties of accept *)

ALog == accepted.log

\* the node at position pos of the tree
RECURSIVE SubtreeAt(_, _)
SubtreeAt(node, pos) ==
    IF pos = <<>> THEN node
    ELSE SubtreeAt(Subtrees(node)[pos[1]], Tail(pos))

\* the hook call that ends the traversal of its node: leave for a Choice or a
\* List, visit for a Leaf
EndsTraversal(e) ==
    \/ e.op = "leave"
    \/ e.op = "visit" /\ SubtreeAt(reqtree, e.pos).type = "Leaf"

\* C6: the traversal of a List or a Choice stops at the first child whose
\* traversal returns False: no hook is called on a later child or below it, and
\* the children up to the stopping one are visited in declared order.
C6_TraversalStopsAtFirstFalse ==
    accepted.st = "returned" =>
        /\ \A i \in DOMAIN ALog :
               (EndsTraversal(ALog[i]) /\ ~ALog[i].ok /\ ALog[i].pos # <<>>) =>
                   LET pos == ALog[i].pos
                       n == Len(pos)
                   IN  /\ \A m \in DOMAIN ALog : ~LaterSibling(pos, ALog[m].pos)
                       /\ \A j \in 1..(pos[n] - 1) :
                              \E m \in 1..(i - 1) :
                                  ALog[m].pos = [pos EXCEPT ![n] = j]
        /\ \A a, b \in DOMAIN ALog :
               a < b => ~LaterSibling(ALog[b].pos, ALog[a].pos)

\* a list of three children whose first child is a Choice or a List the leave of
\* which returns False, or a Leaf the visit of which does: nothing of the other two
C6_Witness ==
    /\ accepted.st = "returned"
    /\ Len(reqtree.children) = 3
    /\ reqtree.children[1].type # "Leaf"
    /\ \E i \in DOMAIN ALog :
           ALog[i].pos = <<1>> /\ ALog[i].op = "leave" /\ ~ALog[i].ok
    /\ \E i \in DOMAIN ALog : Len(ALog[i].pos) = 2

\* the reads of stored values, and the provider commits, of a run
Checks(log) == SelectSeq(log, LAMBDA e : e.op = "read")

Commits(log) == SelectSeq(log, LAMBDA e : e.op = "fulfill")

\* C7: walking the tree with a ValidateDependenciesVisitor gives the result of
\* validate_dependencies, checks the stored values at the same paths and makes
\* the same provider commits.
C7_VisitorEquivalent ==
    (pc = "validated" /\ accepted.st # "none") =>
        /\ accepted.st = "returned"
        /\ accepted.ret = validated.ret
        /\ [i \in DOMAIN Checks(ALog) |-> Checks(ALog)[i].path]
               = [i \in DOMAIN Checks(VLog) |-> Checks(VLog)[i].path]
        /\ [i \in DOMAIN Commits(ALog) |-> Commits(ALog)[i].provider]
               = [i \in DOMAIN Commits(VLog) |-> Commits(VLog)[i].provider]

====
